---- MODULE Spec2Model ----
(***************************************************************************)
(* A model of app/run.js: the FilePath path object, the IO.ls directory    *)
(* traversal and the FileWriter shim.                                      *)
(*                                                                         *)
(* A JavaScript string is modelled as a sequence of one-character strings, *)
(* so that split, join, replace, substr and the dot-file test are computed *)
(* character by character as the code computes them.                       *)
(***************************************************************************)
EXTENDS Integers, Sequences, FiniteSets, TLC

VARIABLES
    \* ---- FilePath (run.js 54-98) ----
    absPath,      \* constructor argument absPath
    separator,    \* constructor argument separator (<<>> models undefined / "")
    slash,        \* this.slash
    root,         \* this.root
    path,         \* this.path
    file,         \* this.file
    fpLast,       \* the last FilePath operation that ran ("none" before construction)
    fpRet,        \* what the last call returned: "this", "string" or "none"
    fpStr,        \* the string returned by the last toString()
    upDirCalls,   \* number of upDir() calls since construction
    renewCalls,   \* number of times the object was rebuilt from its own toString()
    \* ---- the file system IO.ls reads, and IO.ls (run.js 266-293) ----
    fsKind,       \* node of the tree below dir -> "none", "file" or "dir"
    fsFail,       \* the one failing file system call, if any: [op, node]
    dir,          \* argument dir of the initial call
    recurse,      \* argument recurse of the initial call (Undefined if omitted)
    lsPc,         \* "init", "running", "returned" or "thrown"
    stack,        \* the active IO.ls invocations, the innermost last
    _path,        \* the array _path shared by all invocations
    _allFiles,    \* the array _allFiles shared by all invocations
    lsResult,     \* the array the initial call returned
    \* ---- FileWriter (run.js 144-202) ----
    writeStream,  \* this.writeStream: "undefined", "open" or "ended"
    fileContent,  \* the content of the file the stream writes to
    fwLast,       \* the last FileWriter method that ran
    fwArgs,       \* the arguments [str, from, to] of the last append or write
    fwWritten     \* the string the last writeStream.write received

fpVars == <<absPath, separator, slash, root, path, file, fpLast, fpRet, fpStr,
           upDirCalls, renewCalls>>

lsVars == <<fsKind, fsFail, dir, recurse, lsPc, stack, _path, _allFiles, lsResult>>

fwVars == <<writeStream, fileContent, fwLast, fwArgs, fwWritten>>

vars == <<fpVars, lsVars, fwVars>>

(***************************************************************************)
(* Bounds of the model.                                                    *)
(***************************************************************************)
MaxLen == 5         \* raw paths: every string over PathChars up to this length
MaxUpDir == 3       \* upDir() calls per constructed object
MaxRenew == 1       \* rebuilds of a FilePath from its own toString()
MaxRecurse == 2     \* the largest recurse argument given to IO.ls
MaxStr == 5         \* the longest string handed to FileWriter.append and write
MaxContent == 3     \* the longest file content FileWriter builds up

(***************************************************************************)
(* Strings.                                                                *)
(***************************************************************************)
Slash == "/"
BackSlash == "\\"
Dot == "."

PathChars == {Slash, BackSlash, Dot, "a"}

RECURSIVE StringsUpTo(_, _)
StringsUpTo(chars, n) ==
    IF n = 0 THEN {<<>>}
    ELSE LET shorter == StringsUpTo(chars, n - 1)
         IN shorter \cup {Append(s, c) : s \in {t \in shorter : Len(t) = n - 1}, c \in chars}

\* "/a/b/../c/file.txt"
ExDotDot == <<"/","a","/","b","/",".",".","/","c","/","f","i","l","e",".","t","x","t">>
\* "/a/./b/file.txt"
ExDot == <<"/","a","/",".","/","b","/","f","i","l","e",".","t","x","t">>
\* "/a/b/c/file.txt"
ExDeep == <<"/","a","/","b","/","c","/","f","i","l","e",".","t","x","t">>
\* "c:\a/../../b\f"
ExMixed == <<"c",":","\\","a","/",".",".","/",".",".","/","b","\\","f">>

Examples == {ExDotDot, ExDot, ExDeep, ExMixed}

RawPaths == StringsUpTo(PathChars, MaxLen) \cup Examples

Separators == {<<>>, <<Slash>>, <<BackSlash>>, <<":">>}

\* String.prototype.split(/[\\\/]/): the tokens between separator characters.
\* The result always has at least one token (the empty string splits to [""]).
Split(s) ==
    LET RECURSIVE go(_, _, _)
        go(i, cur, acc) ==
            IF i > Len(s) THEN Append(acc, cur)
            ELSE IF s[i] \in {Slash, BackSlash} THEN go(i + 1, <<>>, Append(acc, cur))
            ELSE go(i + 1, Append(cur, s[i]), acc)
    IN go(1, <<>>, <<>>)

\* Array.prototype.join(sep)
RECURSIVE Join(_, _)
Join(parts, sep) ==
    IF Len(parts) = 0 THEN <<>>
    ELSE IF Len(parts) = 1 THEN parts[1]
    ELSE parts[1] \o sep \o Join(Tail(parts), sep)

\* Array.prototype.pop(): removes the last element, nothing on an empty array.
Pop(arr) == IF Len(arr) = 0 THEN arr ELSE SubSeq(arr, 1, Len(arr) - 1)

(***************************************************************************)
(* The parts of the state a specification of another part leaves alone.    *)
(***************************************************************************)
Undefined == -1     \* an omitted numeric argument

FilePathIdle ==
    /\ absPath = <<>>
    /\ separator = <<>>
    /\ slash = <<>>
    /\ root = <<>>
    /\ path = <<>>
    /\ file = <<>>
    /\ fpLast = "none"
    /\ fpRet = "none"
    /\ fpStr = <<>>
    /\ upDirCalls = 0
    /\ renewCalls = 0

LsIdle ==
    /\ fsKind = <<>>
    /\ fsFail = [op |-> "none", node |-> <<>>]
    /\ dir = <<>>
    /\ recurse = Undefined
    /\ lsPc = "idle"
    /\ stack = <<>>
    /\ _path = <<>>
    /\ _allFiles = <<>>
    /\ lsResult = <<>>

FileWriterIdle ==
    /\ writeStream = "undefined"
    /\ fileContent = <<>>
    /\ fwLast = "none"
    /\ fwArgs = [str |-> <<>>, from |-> Undefined, to |-> Undefined]
    /\ fwWritten = <<>>

(***************************************************************************)
(* FilePath                                                                *)
(***************************************************************************)
\* resolvePath with the ".." case dropping the pop.
resolvePathNoPop(p) ==
    LET RECURSIVE loop(_, _)
        loop(i, resolvedPath) ==
            IF i > Len(p) THEN resolvedPath
            ELSE IF p[i] = <<Dot, Dot>> THEN loop(i + 1, resolvedPath)
            ELSE IF p[i] # <<Dot>> THEN loop(i + 1, Append(resolvedPath, p[i]))
            ELSE loop(i + 1, resolvedPath)
    IN loop(1, <<>>)

\* resolvePath keeping a "." item instead of skipping it.
resolvePathKeepDot(p) ==
    LET RECURSIVE loop(_, _)
        loop(i, resolvedPath) ==
            IF i > Len(p) THEN resolvedPath
            ELSE IF p[i] = <<Dot, Dot>> THEN loop(i + 1, Pop(resolvedPath))
            ELSE loop(i + 1, Append(resolvedPath, p[i]))
    IN loop(1, <<>>)

\* FilePath.prototype.resolvePath, applied to this.path = p.
resolvePath(p) ==
    LET RECURSIVE loop(_, _)
        loop(i, resolvedPath) ==
            IF i > Len(p) THEN resolvedPath
            ELSE IF p[i] = <<Dot, Dot>> THEN loop(i + 1, Pop(resolvedPath))
            ELSE IF p[i] # <<Dot>> THEN loop(i + 1, Append(resolvedPath, p[i]))
            ELSE loop(i + 1, resolvedPath)
    IN loop(1, <<>>)

\* The fields of new FilePath(abs, sep).
FilePathFields(abs, sep) ==
    LET sl == IF sep = <<>> THEN <<Slash>> ELSE sep
        parts0 == Split(abs)
        rt == IF Len(parts0) > 0 THEN Head(parts0) \o sl ELSE sl
        parts1 == IF Len(parts0) > 0 THEN Tail(parts0) ELSE parts0
        fl == IF Len(parts1) > 0 THEN parts1[Len(parts1)] ELSE <<>>
        parts2 == Pop(parts1)
    IN [slash |-> sl, root |-> rt, path |-> resolvePath(parts2), file |-> fl]

\* toString without the separator between the last segment and the file name.
FilePathStringNoSep(rt, p, sl, fl) ==
    rt \o Join(p, sl) \o fl

\* FilePath.prototype.toString on the given fields.
FilePathString(rt, p, sl, fl) ==
    rt \o Join(p, sl) \o (IF Len(p) > 0 THEN sl ELSE <<>>) \o fl

InitFilePath ==
    /\ absPath \in RawPaths
    /\ separator \in Separators
    /\ slash = <<>>
    /\ root = <<>>
    /\ path = <<>>
    /\ file = <<>>
    /\ fpLast = "none"
    /\ fpRet = "none"
    /\ fpStr = <<>>
    /\ upDirCalls = 0
    /\ renewCalls = 0
    /\ LsIdle
    /\ FileWriterIdle

\* new FilePath(absPath, separator)
FilePathNew ==
    /\ fpLast = "none"
    /\ LET o == FilePathFields(absPath, separator)
       IN /\ slash' = o.slash
          /\ root' = o.root
          /\ path' = o.path
          /\ file' = o.file
    /\ fpLast' = "new"
    /\ fpRet' = "this"
    /\ UNCHANGED <<absPath, separator, fpStr, upDirCalls, renewCalls, lsVars, fwVars>>

\* toDir()
toDir ==
    /\ fpLast # "none"
    /\ file' = <<>>
    /\ fpLast' = "toDir"
    /\ fpRet' = "this"
    /\ UNCHANGED <<absPath, separator, slash, root, path, fpStr, upDirCalls, renewCalls, lsVars, fwVars>>

\* upDir() without its call of toDir().
upDirKeepFile ==
    /\ fpLast # "none"
    /\ upDirCalls < MaxUpDir
    /\ path' = Pop(path)
    /\ fpLast' = "upDir"
    /\ fpRet' = "this"
    /\ upDirCalls' = upDirCalls + 1
    /\ UNCHANGED <<absPath, separator, slash, root, file, fpStr, renewCalls, lsVars, fwVars>>

\* upDir()
upDir ==
    /\ fpLast # "none"
    /\ upDirCalls < MaxUpDir
    /\ file' = <<>>
    /\ path' = Pop(path)
    /\ fpLast' = "upDir"
    /\ fpRet' = "this"
    /\ upDirCalls' = upDirCalls + 1
    /\ UNCHANGED <<absPath, separator, slash, root, fpStr, renewCalls, lsVars, fwVars>>

\* toString()
toString ==
    /\ fpLast # "none"
    /\ fpStr' = FilePathString(root, path, slash, file)
    /\ fpLast' = "toString"
    /\ fpRet' = "string"
    /\ UNCHANGED <<absPath, separator, slash, root, path, file, upDirCalls, renewCalls, lsVars, fwVars>>

\* new FilePath(str, separator) where str is the string toString() just returned.
FilePathRenew ==
    /\ fpLast = "toString"
    /\ renewCalls < MaxRenew
    /\ renewCalls' = renewCalls + 1
    /\ absPath' = fpStr
    /\ LET o == FilePathFields(fpStr, separator)
       IN /\ slash' = o.slash
          /\ root' = o.root
          /\ path' = o.path
          /\ file' = o.file
    /\ fpLast' = "new"
    /\ fpRet' = "this"
    /\ upDirCalls' = 0
    /\ UNCHANGED <<separator, fpStr, lsVars, fwVars>>

NextFilePath ==
    \/ FilePathNew
    \/ toDir
    \/ upDir
    \/ toString
    \/ FilePathRenew

SpecFilePath == InitFilePath /\ [][NextFilePath]_vars

(***************************************************************************)
(* Properties of FilePath.                                                 *)
(***************************************************************************)
IsSep(c) == c \in {Slash, BackSlash}

\* The tokens of s as the text between consecutive separator positions.
TokensOf(s) ==
    LET cuts == {0, Len(s) + 1} \cup {i \in 1..Len(s) : IsSep(s[i])}
        cut(k) == CHOOSE c \in cuts : Cardinality({d \in cuts : d < c}) = k - 1
    IN [k \in 1..(Cardinality(cuts) - 1) |-> SubSeq(s, cut(k) + 1, cut(k + 1) - 1)]

\* The middle tokens of s: all but the first and the last remaining one.
MiddleOf(s) ==
    LET t == TokensOf(s)
    IN IF Len(t) <= 2 THEN <<>> ELSE SubSeq(t, 2, Len(t) - 1)

\* The last remaining token of s after the first was taken ("" if none remains).
LastOf(s) ==
    LET t == TokensOf(s)
    IN IF Len(t) <= 1 THEN <<>> ELSE t[Len(t)]

\* One left-to-right pass: ".." removes the most recently accepted segment
\* (nothing if none remains), "." is skipped, any other token is appended.
RECURSIVE Accepted(_)
Accepted(toks) ==
    IF toks = <<>> THEN <<>>
    ELSE LET before == Accepted(SubSeq(toks, 1, Len(toks) - 1))
             t == toks[Len(toks)]
         IN IF t = <<Dot, Dot>>
                THEN (IF before = <<>> THEN <<>> ELSE SubSeq(before, 1, Len(before) - 1))
            ELSE IF t = <<Dot>> THEN before
            ELSE Append(before, t)

RECURSIVE EachFollowedBy(_, _)
EachFollowedBy(segs, sep) ==
    IF segs = <<>> THEN <<>> ELSE Head(segs) \o sep \o EachFollowedBy(Tail(segs), sep)

SepOf(sep) == IF sep = <<>> THEN <<Slash>> ELSE sep

NormalizedString(s, sep) ==
    TokensOf(s)[1] \o SepOf(sep) \o EachFollowedBy(Accepted(MiddleOf(s)), SepOf(sep)) \o LastOf(s)

\* "/a/c/file.txt"
OutDotDot == <<"/","a","/","c","/","f","i","l","e",".","t","x","t">>
\* "/a/b/file.txt"
OutDot == <<"/","a","/","b","/","f","i","l","e",".","t","x","t">>

\* C2: toString() of a freshly constructed FilePath is the first token followed
\* by the separator, each resolved middle segment followed by the separator,
\* then the last remaining token; "/a/b/../c/file.txt" gives "/a/c/file.txt"
\* and "/a/./b/file.txt" gives "/a/b/file.txt".
C2_ToStringNormalized ==
    [][(fpLast = "new" /\ fpLast' = "toString") =>
         /\ fpStr' = NormalizedString(absPath, separator)
         /\ (absPath = ExDotDot /\ SepOf(separator) = <<Slash>>) => fpStr' = OutDotDot
         /\ (absPath = ExDot /\ SepOf(separator) = <<Slash>>) => fpStr' = OutDot]_vars

C2_Witness ==
    /\ fpLast = "toString"
    /\ absPath = ExDotDot
    /\ fpStr = OutDotDot

\* C6: in every state of a constructed FilePath the segment list holds neither
\* "." nor "..", and right after construction a ".." of the raw path that has
\* no accepted segment before it leaves the segment list as it would be
\* without that marker and the tokens before it.
C6_NoDotSegments ==
    fpLast # "none" =>
      /\ \A i \in 1..Len(path) : path[i] # <<Dot>> /\ path[i] # <<Dot, Dot>>
      /\ fpLast = "new" =>
            LET mid == MiddleOf(absPath)
            IN \A i \in 1..Len(mid) :
                 (mid[i] = <<Dot, Dot>> /\ Accepted(SubSeq(mid, 1, i - 1)) = <<>>)
                   => path = Accepted(SubSeq(mid, i + 1, Len(mid)))

\* "c:\a/../../b\f" resolves to the single segment "b": the second ".." has
\* nothing left to remove.
C6_Witness ==
    /\ fpLast = "new"
    /\ absPath = ExMixed
    /\ path = << <<"b">> >>

\* C7: upDir() clears the file name, removes the last segment (nothing when
\* there is none), keeps root and separator and returns the object; two
\* upDir() calls on "/a/b/c/file.txt" make toString() return "/a/".
C7_UpDir ==
    /\ [][(upDirCalls' = upDirCalls + 1) =>
             /\ file' = <<>>
             /\ path' = (IF path = <<>> THEN <<>> ELSE SubSeq(path, 1, Len(path) - 1))
             /\ root' = root
             /\ slash' = slash
             /\ fpRet' = "this"]_vars
    /\ []((/\ absPath = ExDeep
           /\ SepOf(separator) = <<Slash>>
           /\ renewCalls = 0
           /\ upDirCalls = 2
           /\ fpLast = "toString") => fpStr = <<"/", "a", "/">>)

C7_Witness ==
    /\ absPath = ExDeep
    /\ renewCalls = 0
    /\ upDirCalls = 2
    /\ fpLast = "toString"
    /\ fpStr = <<"/", "a", "/">>

\* C10: with separator "/" or "\", a FilePath built from the toString() of a
\* FilePath has the same root, segment list and file name, hence the same
\* toString().
C10_Idempotent ==
    [][(renewCalls' = renewCalls + 1 /\ slash \in {<<Slash>>, <<BackSlash>>}) =>
         /\ root' = root
         /\ path' = path
         /\ file' = file
         /\ NormalizedString(absPath', separator') = fpStr]_vars

C10_Witness ==
    /\ renewCalls = 1
    /\ fpLast = "new"
    /\ slash = <<BackSlash>>
    /\ Len(path) = 2
    /\ file # <<>>

\* With another separator the rebuilt path differs: the root grows by the separator.
NotIdempotentOtherSeparator ==
    [][(renewCalls' = renewCalls + 1) => root' = root]_vars

(***************************************************************************)
(* The file system below the start directory.                              *)
(*                                                                         *)
(* A node is the sequence of entry names leading to it from the start      *)
(* directory; <<>> is the start directory itself.  Init chooses which of   *)
(* the candidate nodes exist and whether each is a plain file or a         *)
(* directory, and at most one file system call that fails.                 *)
(***************************************************************************)
NameX == <<"x">>
NameS == <<"s">>
NameT == <<"t">>
NameW == <<"w">>
NameZ == <<"z">>
NameDotH == <<".", "h">>          \* a dot file
NameDotDotY == <<".", ".", "y">>   \* begins with two dots: not a dot file

Nodes ==
    { <<>>,
      <<NameX>>, <<NameDotH>>, <<NameS>>,
      <<NameDotH, NameW>>,
      <<NameS, NameDotDotY>>, <<NameS, NameDotH>>, <<NameS, NameT>>,
      <<NameS, NameT, NameZ>> }

\* Nodes that are only ever plain files (or absent) in the trees Init draws.
LeafNodes == { <<NameDotH, NameW>>, <<NameS, NameDotDotY>>, <<NameS, NameDotH>> }

\* The order in which a directory read yields the names.
NameOrder == <<NameDotH, NameDotDotY, NameX, NameS, NameT, NameW, NameZ>>

Parent(n) == SubSeq(n, 1, Len(n) - 1)

TreeOK(kind) ==
    /\ \A n \in Nodes \ {<<>>} : kind[n] # "none" => kind[Parent(n)] = "dir"
    /\ \A n \in LeafNodes : kind[n] # "dir"

Trees == {kind \in [Nodes -> {"none", "file", "dir"}] : TreeOK(kind)}

\* "r", "r/", "/" and ".c"
StartDirs == { <<"r">>, <<"r", "/">>, <<"/">>, <<".", "c">> }

\* The components of a path string as the operating system resolves it:
\* the non-empty pieces between "/" characters.
Components(s) ==
    LET RECURSIVE go(_, _, _)
        go(i, cur, acc) ==
            IF i > Len(s) THEN (IF cur = <<>> THEN acc ELSE Append(acc, cur))
            ELSE IF s[i] = Slash
                THEN go(i + 1, <<>>, IF cur = <<>> THEN acc ELSE Append(acc, cur))
            ELSE go(i + 1, Append(cur, s[i]), acc)
    IN go(1, <<>>, <<>>)

IsPrefix(a, b) == Len(a) <= Len(b) /\ SubSeq(b, 1, Len(a)) = a

\* The node a path string names (meaningful when the string lies at or below dir).
NodeOf(s) ==
    LET c == Components(s)
        d == Components(dir)
    IN SubSeq(c, Len(d) + 1, Len(c))

\* The path string names an existing file or directory.
Exists(s) ==
    /\ IsPrefix(Components(dir), Components(s))
    /\ NodeOf(s) \in Nodes
    /\ fsKind[NodeOf(s)] # "none"

\* fs.statSync(s) throws: nothing of that name, or the failing call is this one.
StatFails(s) ==
    \/ ~Exists(s)
    \/ fsFail.op = "stat" /\ fsFail.node = NodeOf(s)

\* fs.statSync(s).isDirectory()
IsDirectory(s) == fsKind[NodeOf(s)] = "dir"

\* fs.readdirSync(s) throws.
ReadDirFails(s) == fsFail.op = "readdir" /\ fsFail.node = NodeOf(s)

\* fs.readdirSync(s): the names of the entries of the directory, in NameOrder.
ReadDir(s) ==
    LET n == NodeOf(s)
        present(name) == Append(n, name) \in Nodes /\ fsKind[Append(n, name)] # "none"
        RECURSIVE go(_)
        go(i) ==
            IF i > Len(NameOrder) THEN <<>>
            ELSE (IF present(NameOrder[i]) THEN <<NameOrder[i]>> ELSE <<>>) \o go(i + 1)
    IN go(1)

(***************************************************************************)
(* IO.ls                                                                   *)
(***************************************************************************)
\* String.prototype.replace("//", "/"): the first occurrence only.
ReplaceFirst(s) ==
    LET hits == {i \in 1..(Len(s) - 1) : s[i] = Slash /\ s[i + 1] = Slash}
    IN IF hits = {} THEN s
       ELSE LET i == CHOOSE h \in hits : \A g \in hits : h <= g
            IN SubSeq(s, 1, i) \o SubSeq(s, i + 2, Len(s))

\* The dot-file test with the character class of the second character wrong.
IsDotFileWrongClass(name) ==
    /\ Len(name) >= 2
    /\ name[1] = Dot
    /\ name[2] = Dot

\* file.match(/^\.[^\.\/\\]/)
IsDotFile(name) ==
    /\ Len(name) >= 2
    /\ name[1] = Dot
    /\ name[2] \notin {Dot, Slash, BackSlash}

\* The recursion test descending one level too deep.
ShouldRecurseOffByOne(pathLength, rec) == pathLength - 1 <= rec

\* The recursion test always descending.
ShouldRecurseAlways(pathLength, rec) == TRUE

\* _path.length-1 < recurse
ShouldRecurse(pathLength, rec) == pathLength - 1 < rec

\* if (recurse === undefined) recurse = 1
Recurse == IF recurse = Undefined THEN 1 ELSE recurse

\* _path.join("/")+"/"+file
EntryPath(p, name) == Join(p, <<Slash>>) \o <<Slash>> \o name

Top == stack[Len(stack)]

\* The innermost invocation moves on to the next entry of its listing.
Advance(st) == [st EXCEPT ![Len(st)].f = @ + 1]

FailSet ==
    {[op |-> "none", node |-> <<>>]}
      \cup {[op |-> "stat", node |-> n] : n \in Nodes \ {<<>>}}
      \cup {[op |-> "readdir", node |-> n] : n \in Nodes \ LeafNodes}

InitLs ==
    /\ fsKind \in Trees
    /\ fsFail \in {x \in FailSet :
                     \/ x.op = "none"
                     \/ x.op = "stat" /\ fsKind[x.node] # "none"
                     \/ x.op = "readdir" /\ fsKind[x.node] = "dir"}
    /\ dir \in StartDirs
    /\ recurse \in {Undefined} \cup 0..MaxRecurse
    /\ lsPc = "init"
    /\ stack = <<>>
    /\ _path = <<>>
    /\ _allFiles = <<>>
    /\ lsResult = <<>>
    /\ FilePathIdle
    /\ FileWriterIdle

\* IO.ls(dir, recurse): the initial call sets up _allFiles and _path.
LsCall ==
    /\ lsPc = "init"
    /\ lsPc' = "running"
    /\ _allFiles' = <<>>
    /\ _path' = <<dir>>
    /\ stack' = <<[dir |-> dir, stage |-> "enter", files |-> <<>>, f |-> 0]>>
    /\ UNCHANGED <<fsKind, fsFail, dir, recurse, lsResult, fpVars, fwVars>>

\* The innermost invocation returns value: to the caller of IO.ls if it is the
\* initial call, else to line 284, whose result is dropped; the caller then
\* pops _path and goes on with its next entry.
Return(value) ==
    IF Len(stack) = 1
    THEN /\ lsPc' = "returned"
         /\ lsResult' = value
         /\ stack' = <<>>
         /\ UNCHANGED <<_path, _allFiles>>
    ELSE /\ stack' = Advance(Pop(stack))
         /\ _path' = Pop(_path)
         /\ UNCHANGED <<lsPc, lsResult, _allFiles>>

\* An exception of fs leaves every invocation: nothing catches it.
Throw ==
    /\ lsPc' = "thrown"
    /\ stack' = <<>>
    /\ UNCHANGED <<_path, _allFiles, lsResult>>

\* A failing call whose error is swallowed: the traversal returns what it has.
LsEnterThrowSwallowed ==
    /\ lsPc = "running"
    /\ Top.stage = "enter"
    /\ Len(_path) # 0
    /\ StatFails(Top.dir) \/ (IsDirectory(Top.dir) /\ ReadDirFails(Top.dir))
    /\ Return(_allFiles)
    /\ UNCHANGED <<fsKind, fsFail, dir, recurse, fpVars, fwVars>>

\* Lines 274 and 276: fs.statSync(dir) or fs.readdirSync(dir) throws.
LsEnterThrow ==
    /\ lsPc = "running"
    /\ Top.stage = "enter"
    /\ Len(_path) # 0
    /\ StatFails(Top.dir) \/ (IsDirectory(Top.dir) /\ ReadDirFails(Top.dir))
    /\ Throw
    /\ UNCHANGED <<fsKind, fsFail, dir, recurse, fpVars, fwVars>>

\* Lines 271-275: dir is not a directory (or _path is empty): return at once.
LsEnterFile ==
    /\ lsPc = "running"
    /\ Top.stage = "enter"
    /\ IF Len(_path) = 0
       THEN Return(_allFiles)
       ELSE /\ ~StatFails(Top.dir)
            /\ ~IsDirectory(Top.dir)
            /\ Return(<<Top.dir>>)
    /\ UNCHANGED <<fsKind, fsFail, dir, recurse, fpVars, fwVars>>

\* Lines 274-278: dir is a directory; read it and start the loop.
LsReadDir ==
    /\ lsPc = "running"
    /\ Top.stage = "enter"
    /\ Len(_path) # 0
    /\ ~StatFails(Top.dir)
    /\ IsDirectory(Top.dir)
    /\ ~ReadDirFails(Top.dir)
    /\ stack' = [stack EXCEPT ![Len(stack)] =
                   [@ EXCEPT !.stage = "loop", !.files = ReadDir(Top.dir), !.f = 0]]
    /\ UNCHANGED <<fsKind, fsFail, dir, recurse, lsPc, _path, _allFiles, lsResult, fpVars, fwVars>>

InLoop ==
    /\ lsPc = "running"
    /\ Top.stage = "loop"
    /\ Top.f < Len(Top.files)

File == Top.files[Top.f + 1]

\* Line 280: a dot file is skipped.
LsSkipDotFile ==
    /\ InLoop
    /\ IsDotFile(File)
    /\ stack' = Advance(stack)
    /\ UNCHANGED <<fsKind, fsFail, dir, recurse, lsPc, _path, _allFiles, lsResult, fpVars, fwVars>>

\* Line 282: fs.statSync of the entry throws.
LsStatThrow ==
    /\ InLoop
    /\ ~IsDotFile(File)
    /\ StatFails(EntryPath(_path, File))
    /\ Throw
    /\ UNCHANGED <<fsKind, fsFail, dir, recurse, fpVars, fwVars>>

\* Lines 282-285: a directory within the depth limit: IO.ls calls itself.
LsRecurse ==
    /\ InLoop
    /\ ~IsDotFile(File)
    /\ ~StatFails(EntryPath(_path, File))
    /\ IsDirectory(EntryPath(_path, File))
    /\ ShouldRecurse(Len(_path) + 1, Recurse)
    /\ _path' = Append(_path, File)
    /\ stack' = Append(stack, [dir |-> Join(_path', <<Slash>>), stage |-> "enter",
                               files |-> <<>>, f |-> 0])
    /\ UNCHANGED <<fsKind, fsFail, dir, recurse, lsPc, _allFiles, lsResult, fpVars, fwVars>>

\* Lines 282-285: a directory at the depth limit: pushed on _path and popped again.
LsDirTooDeep ==
    /\ InLoop
    /\ ~IsDotFile(File)
    /\ ~StatFails(EntryPath(_path, File))
    /\ IsDirectory(EntryPath(_path, File))
    /\ ~ShouldRecurse(Len(_path) + 1, Recurse)
    /\ _path' = Pop(Append(_path, File))
    /\ stack' = Advance(stack)
    /\ UNCHANGED <<fsKind, fsFail, dir, recurse, lsPc, _allFiles, lsResult, fpVars, fwVars>>

\* Line 288: a plain file is added to _allFiles.
LsPushFile ==
    /\ InLoop
    /\ ~IsDotFile(File)
    /\ ~StatFails(EntryPath(_path, File))
    /\ ~IsDirectory(EntryPath(_path, File))
    /\ _allFiles' = Append(_allFiles, ReplaceFirst(EntryPath(_path, File)))
    /\ stack' = Advance(stack)
    /\ UNCHANGED <<fsKind, fsFail, dir, recurse, lsPc, _path, lsResult, fpVars, fwVars>>

\* Line 292: the loop is over: return _allFiles.
LsReturn ==
    /\ lsPc = "running"
    /\ Top.stage = "loop"
    /\ Top.f >= Len(Top.files)
    /\ Return(_allFiles)
    /\ UNCHANGED <<fsKind, fsFail, dir, recurse, fpVars, fwVars>>

NextLs ==
    \/ LsCall
    \/ LsEnterThrow
    \/ LsEnterFile
    \/ LsReadDir
    \/ LsSkipDotFile
    \/ LsStatThrow
    \/ LsRecurse
    \/ LsDirTooDeep
    \/ LsPushFile
    \/ LsReturn

Spec == InitLs /\ [][NextLs]_vars

\* IO.ls is synchronous: a call that has begun runs until it returns or throws.
LiveSpec == Spec /\ WF_vars(NextLs)

(***************************************************************************)
(* Properties of IO.ls.                                                    *)
(***************************************************************************)
ToSet(seq) == {seq[i] : i \in 1..Len(seq)}

\* An entry name is hidden: it begins with "." followed by a character that
\* is neither "." nor a separator.
Hidden(name) ==
    \E c \in ToSet(name) \ {Dot, Slash, BackSlash} :
        name = <<Dot, c>> \o SubSeq(name, 3, Len(name))

HasHidden(n) == \E i \in 1..Len(n) : Hidden(n[i])

\* The plain files at most d levels below the start directory that are not
\* hidden and lie below no hidden directory.
ListedNodes(d) ==
    {n \in Nodes \ {<<>>} : fsKind[n] = "file" /\ Len(n) <= d /\ ~HasHidden(n)}

\* Directory prefix + "/" + name, the prefix being the start directory and
\* the directories passed through, joined by "/".
RECURSIVE PlainPath(_, _)
PlainPath(prefix, n) ==
    IF n = <<>> THEN prefix ELSE PlainPath(prefix \o <<Slash>> \o Head(n), Tail(n))

\* s with its first "//" made "/".
RECURSIVE CollapseFirstDoubleSlash(_)
CollapseFirstDoubleSlash(s) ==
    IF Len(s) < 2 THEN s
    ELSE IF s[1] = Slash /\ s[2] = Slash THEN Tail(s)
    ELSE <<s[1]>> \o CollapseFirstDoubleSlash(Tail(s))

Returned == lsPc = "returned"

StartIsDirectory == fsKind[<<>>] = "dir"

\* C1 as stated: for a directory and maxDepth >= 1 the result is exactly the
\* paths prefix + "/" + name of the listed files.
C1_PlainPaths ==
    (Returned /\ StartIsDirectory /\ Recurse >= 1) =>
        ToSet(lsResult) = {PlainPath(dir, n) : n \in ListedNodes(Recurse)}

\* C1: for a directory and maxDepth d >= 1 the result holds, once each, exactly
\* the paths prefix + "/" + name, with the first "//" of each made "/", of the
\* plain files that are not hidden, lie at most d levels below the start
\* directory and are reached through no hidden directory below it; a
\* directory at the depth limit is neither descended into nor listed.
C1_ListedPaths ==
    (Returned /\ StartIsDirectory /\ Recurse >= 1) =>
        /\ ToSet(lsResult) =
             {CollapseFirstDoubleSlash(PlainPath(dir, n)) : n \in ListedNodes(Recurse)}
        /\ Cardinality(ToSet(lsResult)) = Len(lsResult)

\* "r/x" and "r/s/..y"
PathRX == <<"r", "/", "x">>
PathRSY == <<"r", "/", "s", "/", ".", ".", "y">>

\* Depth 2 below "r": x and s/..y are listed; s/.h is hidden and the
\* directory s/t, at the depth limit, is left out with the file s/t/z in it.
C1_Witness ==
    /\ Returned
    /\ dir = <<"r">>
    /\ recurse = 2
    /\ fsKind[<<NameS, NameDotH>>] = "file"
    /\ fsKind[<<NameS, NameT, NameZ>>] = "file"
    /\ lsResult = <<PathRX, PathRSY>>

\* The entry names of a returned path below the start directory.
EntriesOf(p) == SubSeq(Components(p), Len(Components(dir)) + 1, Len(Components(p)))

\* C3: no returned path names a hidden entry of the tree or lies beneath a
\* hidden directory of it, whatever the depth; a hidden entry is skipped
\* before it is inspected, so a failing call on it (or below it) is never made.
C3_NoHiddenListed ==
    /\ Returned => \A i \in 1..Len(lsResult) : ~HasHidden(EntriesOf(lsResult[i]))
    /\ (fsFail.op # "none" /\ HasHidden(fsFail.node)) => lsPc # "thrown"

\* A traversal to depth 2 returns files although the tree holds a hidden file,
\* a hidden directory with a file in it and a hidden entry whose inspection
\* would fail.
C3_Witness ==
    /\ Returned
    /\ recurse = 2
    /\ fsKind[<<NameDotH, NameW>>] = "file"
    /\ fsKind[<<NameS, NameDotH>>] = "file"
    /\ fsFail = [op |-> "stat", node |-> <<NameS, NameDotH>>]
    /\ Len(lsResult) = 2

\* The traversal inspects (fs.statSync) node n: it is no hidden entry, lies
\* below no hidden directory, and its parent is read.
Inspected(n) ==
    /\ n # <<>>
    /\ fsKind[n] # "none"
    /\ ~HasHidden(n)
    /\ Len(n) = 1 \/ Len(n) <= Recurse

\* The traversal reads (fs.readdirSync) directory n.
Read(n) ==
    /\ fsKind[n] = "dir"
    /\ ~HasHidden(n)
    /\ Len(n) = 0 \/ Len(n) < Recurse

\* A file system call of the traversal fails.
FailureMet ==
    \/ fsKind[<<>>] = "none"
    \/ fsFail.op = "stat" /\ Inspected(fsFail.node)
    \/ fsFail.op = "readdir" /\ Read(fsFail.node)

\* C4: when the start directory does not exist, or a status check or directory
\* read of the traversal fails, the call ends with the error and returns no
\* list, whatever had been accumulated.
C4_NoPartialResult ==
    /\ (FailureMet /\ lsPc \in {"returned", "thrown"}) => lsPc = "thrown"
    /\ lsPc = "thrown" => lsResult = <<>>
    /\ (~FailureMet) => lsPc # "thrown"

\* Reading the nested directory s fails after r/x was accumulated.
C4_Witness ==
    /\ lsPc = "thrown"
    /\ fsFail = [op |-> "readdir", node |-> <<NameS>>]
    /\ _allFiles = <<PathRX>>
    /\ lsResult = <<>>

\* C5 as stated: with maxDepth 0 and a directory as start, nothing below the
\* start directory is in the result.
C5_DepthZeroListsNothing ==
    (Returned /\ StartIsDirectory /\ recurse = 0) => lsResult = <<>>

\* The invocations of IO.ls nested below the initial call.
Nesting == IF stack = <<>> THEN 0 ELSE Len(stack) - 1

\* C8: a call whose file system calls all succeed eventually returns, and the
\* number of nested invocations never exceeds maxDepth.
C8_BoundedRecursion ==
    /\ [](Nesting <= Recurse)
    /\ (~FailureMet) ~> Returned

\* With maxDepth 2 one invocation is nested below the initial call, reading
\* "r//s", while the tree goes on two levels further down.
C8_Witness ==
    /\ Nesting = 1
    /\ recurse = 2
    /\ Top.dir = <<"r", "/", "/", "s">>
    /\ fsKind[<<NameS, NameT, NameZ>>] = "dir"

(***************************************************************************)
(* FileWriter                                                              *)
(***************************************************************************)
Letters == <<"a", "b", "c", "d", "e", "f", "g">>

\* The strings written: "", "a", "ab", ... up to MaxStr characters.
WriterStrings == {SubSeq(Letters, 1, n) : n \in 0..MaxStr}

Min(a, b) == IF a < b THEN a ELSE b

\* String.prototype.substr(start, length), for 0 <= start and 0 <= length.
Substr(str, start, length) == SubSeq(str, start + 1, Min(start + length, Len(str)))

\* The string append(str, from, to) hands to write: lines 191-193.
AppendedString(str, from, to) ==
    LET from1 == IF from = Undefined \/ from = 0 THEN 0 ELSE from
        to1 == IF to = Undefined \/ to = 0 THEN Len(str) ELSE to
    IN Substr(str, from1, to1)

InitFileWriter ==
    /\ writeStream = "undefined"
    /\ fileContent \in {<<>>, <<"o">>}
    /\ fwLast = "none"
    /\ fwArgs = [str |-> <<>>, from |-> Undefined, to |-> Undefined]
    /\ fwWritten = <<>>
    /\ FilePathIdle
    /\ LsIdle

\* open(path, append): append defaults to true; flag "w" truncates the file.
FileWriterOpen ==
    /\ writeStream = "undefined"
    /\ \E append \in {"null", "true", "false"} :
          LET append1 == IF append = "null" THEN "true" ELSE append
          IN fileContent' = IF append1 = "true" THEN fileContent ELSE <<>>
    /\ writeStream' = "open"
    /\ fwLast' = "open"
    /\ UNCHANGED <<fwArgs, fwWritten, fpVars, lsVars>>

\* append(str, from, to)
FileWriterAppend ==
    /\ writeStream = "open"
    /\ \E str \in WriterStrings :
         \E from \in {Undefined} \cup 0..Len(str) :
           \E to \in {Undefined} \cup 0..Len(str) :
             /\ from = Undefined \/ to = Undefined \/ from <= to
             /\ Len(fileContent) + Len(AppendedString(str, from, to)) <= MaxContent
             /\ fwArgs' = [str |-> str, from |-> from, to |-> to]
             /\ fwWritten' = AppendedString(str, from, to)
             /\ fileContent' = fileContent \o AppendedString(str, from, to)
    /\ fwLast' = "append"
    /\ UNCHANGED <<writeStream, fpVars, lsVars>>

\* write(str)
FileWriterWrite ==
    /\ writeStream = "open"
    /\ \E str \in WriterStrings :
         /\ Len(fileContent) + Len(str) <= MaxContent
         /\ fwArgs' = [str |-> str, from |-> Undefined, to |-> Undefined]
         /\ fwWritten' = str
         /\ fileContent' = fileContent \o str
    /\ fwLast' = "write"
    /\ UNCHANGED <<writeStream, fpVars, lsVars>>

\* close()
FileWriterClose ==
    /\ writeStream = "open"
    /\ writeStream' = "ended"
    /\ fwLast' = "close"
    /\ UNCHANGED <<fileContent, fwArgs, fwWritten, fpVars, lsVars>>

NextFileWriter ==
    \/ FileWriterOpen
    \/ FileWriterAppend
    \/ FileWriterWrite
    \/ FileWriterClose

SpecFileWriter == InitFileWriter /\ [][NextFileWriter]_vars

(***************************************************************************)
(* Properties of FileWriter.                                               *)
(***************************************************************************)
\* C9 as stated: append(str, from, to) writes the characters of str from
\* index from up to index to, from defaulting to 0 and to to str.length.
C9_AppendWritesSubstring ==
    fwLast = "append" =>
        LET from0 == IF fwArgs.from = Undefined THEN 0 ELSE fwArgs.from
            to0 == IF fwArgs.to = Undefined THEN Len(fwArgs.str) ELSE fwArgs.to
        IN fwWritten = SubSeq(fwArgs.str, from0 + 1, to0)

\* The same with index to counted as the last character written.
AppendWritesThroughTo ==
    (fwLast = "append" /\ fwArgs.from # Undefined /\ fwArgs.to # Undefined) =>
        fwWritten = SubSeq(fwArgs.str, fwArgs.from + 1, Min(fwArgs.to + 1, Len(fwArgs.str)))

====
